---------------------------- MODULE Spec2Model ----------------------------
(***************************************************************************)
(* A model of the minijam87 simulation (White-Oak/minijam87): the hex tile *)
(* map and its ring growth (field.rs), the upgrade command, the worker     *)
(* systems (workers.rs), the money ledger (ui.rs) and the day clock        *)
(* (daytime.rs).                                                           *)
(*                                                                         *)
(* The program is a set of Bevy 0.5 systems of one stage.  Within a frame  *)
(* every scheduled system runs once, in an order the executor is free to   *)
(* choose (no label of the source orders them); the Commands a system      *)
(* issues (spawn, despawn, insert, remove) take effect when the stage ends;*)
(* an EventReader sees each event once, in the run of its system that      *)
(* follows the send.  The variable ran holds the systems that have run in  *)
(* the current frame, apply_buffers ends the frame.                        *)
(***************************************************************************)
EXTENDS Integers, Sequences, FiniteSets, TLC

VARIABLES
    tiles,            \* Map.tiles: coordinate -> State, "Absent" when no key
    generated_rings,  \* Map.generated_rings
    timerDuration,    \* NextRingTimer: the duration of the Timer, in seconds
    timerElapsed,     \* NextRingTimer: the elapsed time of the Timer
    coffeeShops,      \* CoffeeShops(built, capacity), the resource ui.rs shows
    office,           \* OfficeTile.ticks_wo_worker by coordinate, -1: no entity
    shop,             \* CoffeeTile.waiting_ticks by coordinate, -1: no entity
    workers,          \* worker entities by slot, NoWorker when the slot is free
    spawnEvents,      \* Events<SpawnWorkerEvent> not yet read by spawn_worker
    tickUnread,       \* TickEvents not yet read, by reading system
    moneyEvents,      \* Events<ChangeMoneyEvent> not yet read by change_money
    money,            \* Money.0
    halted,           \* "running", "exit" after process::exit(0), "panic"
    daytime,          \* Daytime(day, time of day)
    systems,          \* the systems scheduled in the stage
    ran,              \* the systems that have run in the current frame
    ringLimit,        \* the bound on generated_rings of the behaviour at hand
    frames,           \* the frames the behaviour at hand may still end, -1: any
    upgraded,         \* history: the coordinates upgrade_hex has converted
    ringEvents        \* the GeneratedNextRing events sent in the current frame

vars == <<tiles, generated_rings, timerDuration, timerElapsed, coffeeShops,
          office, shop, workers, spawnEvents, tickUnread, moneyEvents, money,
          halted, daytime, systems, ran, ringLimit, frames,
          upgraded, ringEvents>>

-----------------------------------------------------------------------------
(* Bounds of the model.                                                    *)

\* Ring expansions stop when generated_rings reaches MaxRings; where upgrade
\* requests are served too, when it reaches MaxRingsUpgrading.
MaxRings == 3
MaxRingsUpgrading == 2
\* At most this many coordinates outside ring 1 roll a tile other than Inactive.
MaxRolled == 1
\* At most this many upgrade requests succeed.
MaxUpgrades == 1
\* An upgrade_hex run reads at most this many UpgradeTileEvents.
MaxUpgradeEvents == 2

-----------------------------------------------------------------------------
(* Program constants.                                                      *)

START_RING_TIMER_SECS == 10
NEXT_RING_TIMER_SECS == 60
REWARD_FOR_COFFEE == 2
WAIT_TICKS_AFTER_SERVING == 6
MAX_WAITING_TICKS == 50
FEE_FOR_OVERWAIT == -5
FRAMES_PER_ONE_TILE == 64
BASE_CHANCE_TO_SPAWN_WORKER == 1
CHANCE_INCREASE_PER_TICK == 1
HUNDRED_PERCENT_CHANCE == 200

\* NEIGHBOURS_WEIGHTS[obstacles]: the weight of each State, by obstacle count.
NEIGHBOURS_WEIGHTS ==
    [b \in 0..2 |->
        CASE b = 0 -> [Inactive |-> 45, Active |-> 35, Obstacle |-> 20]
          [] b = 1 -> [Inactive |-> 50, Active |-> 10, Obstacle |-> 40]
          [] b = 2 -> [Inactive |-> 25, Active |-> 0,  Obstacle |-> 75]]

-----------------------------------------------------------------------------
(* hex2d::Coordinate: a coordinate is <<x, y>>, z = -x - y is implied.     *)

Abs(n) == IF n < 0 THEN -n ELSE n

\* Direction::all(), as Coordinate offsets: YZ, XZ, XY, ZY, ZX, YX.
Directions == << <<0, 1>>, <<1, 0>>, <<1, -1>>, <<0, -1>>, <<-1, 0>>, <<-1, 1>> >>

Add(c, d) == <<c[1] + d[1], c[2] + d[2]>>

Scale(d, k) == <<d[1] * k, d[2] * k>>

\* Coordinate::distance to the origin.
Dist(c) == (Abs(c[1]) + Abs(c[2]) + Abs(c[1] + c[2])) \div 2

\* Coordinate::neighbors, in the order of Direction::all().
NeighborSeq(c) == [i \in 1..6 |-> Add(c, Directions[i])]

Neighbors(c) == {NeighborSeq(c)[i] : i \in 1..6}

Origin == <<0, 0>>

\* Coordinate::ring_iter(r, Spin::CW(Direction::XY)) around the origin: start on
\* the corner r steps along XY, then walk the six edges, r steps each, turning
\* by one direction at every corner.
\* (mutant) the walk along an edge turns by one direction too few.
RingStep_WrongTurn(r, i) ==
    LET side == (i - 1) \div r
        k    == (i - 1) % r
        corner == Scale(Directions[((2 + side) % 6) + 1], r)
        dir    == Directions[((3 + side) % 6) + 1]
    IN  Add(corner, Scale(dir, k))

RingStep(r, i) ==
    LET side == (i - 1) \div r
        k    == (i - 1) % r
        corner == Scale(Directions[((2 + side) % 6) + 1], r)
        dir    == Directions[((4 + side) % 6) + 1]
    IN  Add(corner, Scale(dir, k))

RingSeq(r) == [i \in 1..(6 * r) |-> RingStep(r, i)]

Ring(r) == {RingSeq(r)[i] : i \in 1..(6 * r)}

-----------------------------------------------------------------------------
(* field.rs: State                                                         *)

States == {"Inactive", "Active", "BreakShop", "Obstacle"}

is_obstacle(s) == s = "Obstacle"

is_passable(s) == ~is_obstacle(s)

is_coffee(s) == s = "BreakShop"

\* (mutants) the test also lets an office, or an obstacle, be upgraded.
is_upgradeable_OrActive(s) == s \in {"Inactive", "Active"}

is_upgradeable_OrObstacle(s) == s \in {"Inactive", "Obstacle"}

is_upgradeable(s) == s = "Inactive"

\* map.tiles.get(&c): the tile at c, "Absent" when the map has no such key.
Get(m, c) == IF c \in DOMAIN m THEN m[c] ELSE "Absent"

-----------------------------------------------------------------------------
(* Small helpers.                                                          *)

Min(a, b) == IF a < b THEN a ELSE b

Max(a, b) == IF a > b THEN a ELSE b

\* The subsets of S with at most k elements.
RECURSIVE SubsetsUpTo(_, _)
SubsetsUpTo(S, k) ==
    IF k <= 0 THEN {{}}
    ELSE LET P == SubsetsUpTo(S, k - 1)
         IN  P \cup {p \cup {x} : p \in P, x \in S}

NoSel == <<"none">>

NoWorker == [alive |-> "no"]

Running == halted = "running"

-----------------------------------------------------------------------------
(* field.rs: Map::default                                                  *)

\* One map per outcome of neigh.choose_multiple(&mut rng, 3): the first chosen
\* neighbour becomes the BreakShop, the other two become Obstacle.
DefaultTiles(coffee, obstacles) ==
    [c \in {Origin} \cup Neighbors(Origin) |->
        IF c = Origin THEN "Active"
        ELSE IF c = coffee THEN "BreakShop"
        ELSE IF c \in obstacles THEN "Obstacle"
        ELSE "Inactive"]

\* The outcomes of choose_multiple: three distinct neighbours, the first apart.
Chosen ==
    {<<coffee, obstacles>> \in Neighbors(Origin) \X (SUBSET Neighbors(Origin)) :
        Cardinality(obstacles) = 2 /\ coffee \notin obstacles}

DefaultMaps ==
    {DefaultTiles(ch[1], ch[2]) : ch \in Chosen}

\* One of them: the shop at the first neighbour, obstacles at the third and
\* the fifth.
HomeMap == DefaultTiles(Directions[1], {Directions[3], Directions[5]})

\* spawn_tile: an Active tile's entity gets OfficeTile { ticks_wo_worker: 0 },
\* a BreakShop's gets CoffeeTile { waiting_ticks: 0 }.  The entities of a map m,
\* given the components that exist already.
OfficeOf(m, old) ==
    [c \in DOMAIN m |->
        IF m[c] = "Active" THEN (IF c \in DOMAIN old /\ old[c] >= 0 THEN old[c] ELSE 0)
        ELSE -1]

ShopOf(m, old) ==
    [c \in DOMAIN m |->
        IF m[c] = "BreakShop" THEN (IF c \in DOMAIN old /\ old[c] >= 0 THEN old[c] ELSE 0)
        ELSE -1]

-----------------------------------------------------------------------------
(* field.rs: generate_next_ring                                            *)

\* (mutant) no neighbour is counted.
ObstacleCount_Blind(m, c) == 0

\* (mutant) a neighbour the map does not hold counts as an Obstacle.
ObstacleCount_OrAbsent(m, c) ==
    Cardinality({i \in 1..6 : Get(m, NeighborSeq(c)[i]) \in {"Obstacle", "Absent"}})

\* The number of c's neighbours that the map holds as Obstacle.
ObstacleCount(m, c) ==
    Cardinality({i \in 1..6 : is_obstacle(Get(m, NeighborSeq(c)[i]))})

\* The States WeightedIndex can sample for c: those of non-zero weight in the
\* bucket of c's obstacle count.
Samplable(m, c) ==
    {s \in {"Inactive", "Active", "Obstacle"} : NEIGHBOURS_WEIGHTS[ObstacleCount(m, c)][s] > 0}

\* The tiles other than Inactive that earlier expansions rolled.
RolledSoFar(m) ==
    Cardinality({c \in DOMAIN m : Dist(c) >= 2 /\ m[c] \in {"Active", "Obstacle"}})

\* The outcomes of sampling one State per coordinate of ring r over the map m,
\* every one sampled before any is inserted; at most `budget` of them are not
\* Inactive.
RingRolls(m, r, budget) ==
    UNION {
        {[c \in Ring(r) |-> IF c \in special THEN kind[c] ELSE "Inactive"] :
            kind \in {k \in [special -> {"Active", "Obstacle"}] :
                        \A c \in special : k[c] \in Samplable(m, c)}} :
        special \in SubsetsUpTo(Ring(r), budget)}

\* Timer::tick for a timer that does not repeat.
TimerTick(elapsed, duration, delta) == Min(elapsed + delta, duration)

\* (mutant) the timer is reset to its first duration.
NextTimerDuration_Start == START_RING_TIMER_SECS

\* The duration the timer is reset to when it has finished.
NextTimerDuration == NEXT_RING_TIMER_SECS

\* NextRadius, but a radius is skipped.
NextRadius_Skips(rings) == rings + 2

\* The radius of the ring an expansion adds.
NextRadius(rings) == rings + 1

\* map.tiles.insert(c, tile) for every (c, tile) of next_tiles.
InsertAll(m, next_tiles) ==
    [c \in DOMAIN m \cup DOMAIN next_tiles |->
        IF c \in DOMAIN next_tiles THEN next_tiles[c] ELSE m[c]]

\* generate_next_ring where at most `budget` of the sampled tiles are not
\* Inactive.
generate_next_ring_within(delta, budget) ==
    /\ Running
    /\ "generate_next_ring" \in systems \ ran
    /\ ran' = ran \cup {"generate_next_ring"}
    /\ IF TimerTick(timerElapsed, timerDuration, delta) < timerDuration
       THEN /\ timerElapsed' = TimerTick(timerElapsed, timerDuration, delta)
            /\ UNCHANGED <<tiles, generated_rings, timerDuration, ringEvents>>
       ELSE /\ generated_rings < ringLimit
            /\ timerDuration' = NextTimerDuration
            /\ timerElapsed' = 0
            /\ generated_rings' = NextRadius(generated_rings)
            /\ \E next_tiles \in RingRolls(tiles, NextRadius(generated_rings), budget) :
                  tiles' = InsertAll(tiles, next_tiles)
            /\ ringEvents' = Append(ringEvents, generated_rings')
    /\ UNCHANGED <<coffeeShops, office, shop, workers, spawnEvents, tickUnread,
                   moneyEvents, money, halted, daytime, systems, ringLimit, frames, upgraded>>

generate_next_ring(delta) ==
    generate_next_ring_within(delta, MaxRolled - RolledSoFar(tiles))

-----------------------------------------------------------------------------
(* field.rs: upgrade_hex                                                   *)

\* UpgradeOne, but every tile of the map is converted.
UpgradeOne_AnyTile(m, sel) ==
    IF sel = NoSel THEN m
    ELSE IF Get(m, sel) = "Absent" THEN m
    ELSE [m EXCEPT ![sel] = "BreakShop"]

\* One UpgradeTileEvent, with `sel` the selected coordinate (NoSel: nothing is
\* selected): the tile becomes a BreakShop when it is upgradeable.
UpgradeOne(m, sel) ==
    IF sel = NoSel THEN m
    ELSE IF Get(m, sel) = "Absent" THEN m
    ELSE IF ~is_upgradeable(m[sel]) THEN m
    ELSE [m EXCEPT ![sel] = "BreakShop"]

\* The loop over the n events read in one run.
RECURSIVE UpgradeAll(_, _, _)
UpgradeAll(m, sel, n) ==
    IF n = 0 THEN m ELSE UpgradeAll(UpgradeOne(m, sel), sel, n - 1)

BreakShops(m) == {c \in DOMAIN m : m[c] = "BreakShop"}

\* What Option<SelectedHex> can hold when a request arrives: nothing, a
\* coordinate of the map, or a coordinate the map does not hold.
Selections == DOMAIN tiles \cup {RingStep(generated_rings + 1, 1), NoSel}

upgrade_hex(sel, n) ==
    /\ Running
    /\ "upgrade_hex" \in systems \ ran
    /\ ran' = ran \cup {"upgrade_hex"}
    /\ tiles' = UpgradeAll(tiles, sel, n)
    /\ upgraded' = upgraded \cup {c \in DOMAIN tiles : tiles'[c] # tiles[c]}
    /\ Cardinality(upgraded') <= MaxUpgrades
    /\ UNCHANGED <<generated_rings, timerDuration, timerElapsed, coffeeShops,
                   office, shop, workers, spawnEvents, tickUnread, moneyEvents,
                   money, halted, daytime, systems, ringLimit, frames, ringEvents>>

-----------------------------------------------------------------------------
(* The end of the stage: the Commands of the frame's systems are applied.  *)

\* The whole seconds a frame's time.delta() may add to the ring timer: 0 is a
\* frame within the running second; a step of the timer that does not finish
\* it only adds up, so 30 and 60 stand for the frames of that many seconds.
FrameDeltas == {0, 30, 60}

\* The same where the timer's own states are not looked at.
WholeDeltas == {0, 60}

Readers == {"office_system", "process_coffees", "wait_worker"}

\* The Commands issued for one worker entity in the frame, applied to it.
ApplyCommands(r) ==
    IF r.alive = "no" THEN r
    ELSE IF "despawn" \in r.cmds THEN NoWorker
    ELSE [r EXCEPT
            !.alive = "yes",
            !.moving = IF "insert_moving" \in r.cmds THEN 0
                       ELSE IF "remove_moving" \in r.cmds THEN -1 ELSE @,
            !.waiting = IF "insert_waiting" \in r.cmds THEN 0
                        ELSE IF "remove_returning_waiting" \in r.cmds THEN -1 ELSE @,
            !.returning = IF "insert_returning" \in r.cmds THEN TRUE
                          ELSE IF "remove_returning_waiting" \in r.cmds THEN FALSE ELSE @,
            !.cmds = {}]

\* The queues of the systems are applied one system after the other, in the
\* order the stage sorted its systems into, which the program does not fix
\* between a system that despawns a worker and one that inserts a component
\* into it: the insert comes first and the worker is despawned, or the
\* despawn comes first and the insert finds no entity and panics.
Dangling(r) ==
    /\ r.alive # "no"
    /\ "despawn" \in r.cmds
    /\ r.cmds \cap {"insert_waiting", "insert_moving", "insert_returning"} # {}

apply_buffers ==
    /\ Running
    /\ ran = systems
    /\ ran' = {}
    /\ office' = OfficeOf(tiles, office)
    /\ shop' = ShopOf(tiles, shop)
    /\ workers' = [w \in DOMAIN workers |-> ApplyCommands(workers[w])]
    /\ \E despawn_first \in BOOLEAN :
          halted' = IF despawn_first /\ \E w \in DOMAIN workers : Dangling(workers[w])
                    THEN "panic" ELSE halted
    /\ frames # 0
    /\ frames' = IF frames > 0 THEN frames - 1 ELSE frames
    /\ ringEvents' = <<>>
    /\ UNCHANGED <<tiles, generated_rings, timerDuration, timerElapsed, coffeeShops,
                   spawnEvents, tickUnread, moneyEvents, money,
                   daytime, systems, ringLimit, upgraded>>

Slots == 1..2

InitOver(m) ==
    /\ tiles = m
    /\ generated_rings = 1
    /\ timerDuration = START_RING_TIMER_SECS
    /\ timerElapsed = 0
    /\ coffeeShops = <<1, 1>>
    /\ office = OfficeOf(m, <<>>)
    /\ shop = ShopOf(m, <<>>)
    /\ workers = [w \in Slots |-> NoWorker]
    /\ spawnEvents = <<>>
    /\ tickUnread = [r \in Readers |-> 0]
    /\ moneyEvents = <<>>
    /\ money = 0
    /\ halted = "running"
    /\ daytime = <<1, 0>>
    /\ ran = {}
    /\ frames = -1
    /\ upgraded = {}
    /\ ringEvents = <<>>

-----------------------------------------------------------------------------
(* SpecMap: the map under ring expansion and upgrade requests.             *)

MapSystems == {"generate_next_ring", "upgrade_hex"}

InitMap ==
    /\ \E m \in DefaultMaps : InitOver(m)
    /\ systems = MapSystems
    /\ ringLimit = MaxRingsUpgrading

NextMap ==
    \/ \E delta \in WholeDeltas : generate_next_ring(delta)
    \/ \E sel \in Selections, n \in 1..MaxUpgradeEvents : upgrade_hex(sel, n)
    \/ upgrade_hex(NoSel, 0)
    \/ apply_buffers

SpecMap == InitMap /\ [][NextMap]_vars

-----------------------------------------------------------------------------
(* SpecTimer: the ring timer and the expansions it triggers.               *)

TimerSystems == {"generate_next_ring"}

InitTimer ==
    /\ InitOver(HomeMap)
    /\ systems = TimerSystems
    /\ ringLimit = MaxRings

NextTimer ==
    \/ \E delta \in FrameDeltas : generate_next_ring(delta)
    \/ apply_buffers

SpecTimer == InitTimer /\ [][NextTimer]_vars

-----------------------------------------------------------------------------
(* ui.rs: change_money                                                     *)

None == -1

\* (mutant) a debit larger than the balance empties it.
checked_sub_Saturating(b, d) == IF b - d < 0 THEN 0 ELSE b - d

\* u32::checked_sub: None when the difference is not a u32.
checked_sub(b, d) == IF b - d < 0 THEN None ELSE b - d

\* The loop over the events read: the balance and whether the process exited.
RECURSIVE ChangeMoney(_, _)
ChangeMoney(b, events) ==
    IF events = <<>> THEN [money |-> b, halted |-> "running"]
    ELSE LET delta == Head(events) IN
         IF delta < 0
         THEN LET res == checked_sub(b, Abs(delta)) IN
              IF res # None THEN ChangeMoney(res, Tail(events))
              ELSE [money |-> b, halted |-> "exit"]
         ELSE ChangeMoney(b + delta, Tail(events))

change_money ==
    /\ Running
    /\ "change_money" \in systems \ ran
    /\ ran' = ran \cup {"change_money"}
    /\ money' = ChangeMoney(money, moneyEvents).money
    /\ halted' = ChangeMoney(money, moneyEvents).halted
    /\ moneyEvents' = <<>>
    /\ UNCHANGED <<tiles, generated_rings, timerDuration, timerElapsed, coffeeShops,
                   office, shop, workers, spawnEvents, tickUnread, daytime,
                   systems, ringLimit, frames, upgraded,
                   ringEvents>>

-----------------------------------------------------------------------------
(* SpecLedger: the ledger under any ChangeMoneyEvent.                      *)

\* The balance stays at or below MaxMoney, an event's delta within
\* -MaxDelta..MaxDelta, and at most MaxPending events wait to be read.
MaxMoney == 12
MaxDelta == 6
MaxPending == 2

RECURSIVE SumPositive(_)
SumPositive(events) ==
    IF events = <<>> THEN 0
    ELSE Max(Head(events), 0) + SumPositive(Tail(events))

\* EventWriter<ChangeMoneyEvent>::send by any system.
send_money(delta) ==
    /\ Running
    /\ Len(moneyEvents) < MaxPending
    /\ money + SumPositive(moneyEvents) + Max(delta, 0) <= MaxMoney
    /\ moneyEvents' = Append(moneyEvents, delta)
    /\ UNCHANGED <<tiles, generated_rings, timerDuration, timerElapsed, coffeeShops,
                   office, shop, workers, spawnEvents, tickUnread, money, halted,
                   daytime, systems, ran, ringLimit, frames, upgraded,
                   ringEvents>>

LedgerSystems == {"change_money"}

InitLedger ==
    /\ InitOver(HomeMap)
    /\ systems = LedgerSystems
    /\ ringLimit = 1

NextLedger ==
    \/ \E delta \in (-MaxDelta)..MaxDelta : send_money(delta)
    \/ change_money
    \/ apply_buffers

SpecLedger == InitLedger /\ [][NextLedger]_vars

-----------------------------------------------------------------------------
(* SpecUpgrade: upgrade requests, from the maps whose first chosen         *)
(* neighbour is the first of Direction::all().                             *)

InitUpgrade ==
    /\ \E ch \in {x \in Chosen : x[1] = Directions[1]} : InitOver(DefaultTiles(ch[1], ch[2]))
    /\ systems = MapSystems
    /\ ringLimit = MaxRingsUpgrading

SpecUpgrade == InitUpgrade /\ [][NextMap]_vars

-----------------------------------------------------------------------------
(* hex2d_dpcext::algo::bfs::Traverser, as office_system and return_worker  *)
(* use it.                                                                 *)

\* (mutant) every coordinate can be passed.
CanPass_Anywhere(m, c) == TRUE

\* The can_pass closure of both callers.
CanPass(m, c) == Get(m, c) # "Absent" /\ is_passable(m[c])

\* The neighbours of pos not visited yet are visited from pos and queued, in
\* the order of Coordinate::neighbors.
RECURSIVE Visit(_, _, _, _)
Visit(pos, i, queue, prev) ==
    IF i > 6 THEN [queue |-> queue, prev |-> prev]
    ELSE LET npos == NeighborSeq(pos)[i] IN
         IF npos \in DOMAIN prev THEN Visit(pos, i + 1, queue, prev)
         ELSE Visit(pos, i + 1, Append(queue, npos), prev @@ (npos :> pos))

\* Find, but the neighbours of a tile that cannot be passed are visited too.
RECURSIVE Find_ThroughWalls(_, _, _, _)
Find_ThroughWalls(m, dests, queue, prev) ==
    IF queue = <<>> THEN [found |-> NoSel, prev |-> prev]
    ELSE LET pos == Head(queue)
             v   == IF Get(m, pos) # "Absent" THEN Visit(pos, 1, Tail(queue), prev)
                    ELSE [queue |-> Tail(queue), prev |-> prev]
         IN  IF pos \in dests THEN [found |-> pos, prev |-> v.prev]
             ELSE Find_ThroughWalls(m, dests, v.queue, v.prev)

\* Traverser::find: take the front of the queue, visit its neighbours when it
\* can be passed, return it when it is a destination.
RECURSIVE Find(_, _, _, _)
Find(m, dests, queue, prev) ==
    IF queue = <<>> THEN [found |-> NoSel, prev |-> prev]
    ELSE LET pos == Head(queue)
             v   == IF CanPass(m, pos) THEN Visit(pos, 1, Tail(queue), prev)
                    ELSE [queue |-> Tail(queue), prev |-> prev]
         IN  IF pos \in dests THEN [found |-> pos, prev |-> v.prev]
             ELSE Find(m, dests, v.queue, v.prev)

Traverse(m, dests, start) == Find(m, dests, <<start>>, (start :> start))

\* Backtrace, but the start closes the path.
RECURSIVE Backtrace_WithStart(_, _, _, _)
Backtrace_WithStart(prev, start, end, path) ==
    LET next == prev[end] IN
    IF next = start THEN Append(path, next)
    ELSE Backtrace_WithStart(prev, start, next, Append(path, next))

\* The loop over Traverser::backtrace: the path from the destination back to,
\* and without, the start.
RECURSIVE Backtrace(_, _, _, _)
Backtrace(prev, start, end, path) ==
    LET next == prev[end] IN
    IF next = start THEN path
    ELSE Backtrace(prev, start, next, Append(path, next))

\* The path from start to the nearest of dests, <<>> with found = NoSel when
\* there is no route.
Route(m, dests, start) ==
    LET t == Traverse(m, dests, start) IN
    IF t.found = NoSel THEN [found |-> NoSel, path |-> <<>>]
    ELSE [found |-> t.found, path |-> Backtrace(t.prev, start, t.found, <<t.found>>)]

-----------------------------------------------------------------------------
(* workers.rs: Worker and its components                                   *)

\* y.ceil() for y = t / 2.
CeilHalf(t) == (t + 1) \div 2

\* (mutant) y.floor() for y.ceil().
money_for_path_Floor(path_len) == Max((5 - path_len) \div 2, 0)

money_for_path(path_len) == Max(CeilHalf(5 - path_len), 0)

\* A Worker entity as spawn_worker builds it.  moving is MovingWorker.0 and
\* waiting is WaitingWorker.0, -1 without the component; returning is the
\* ReturningWorker marker; cmds are the Commands issued for the entity in the
\* current frame.  servedTick, incTick, credited, services and fees are
\* history: the tick of its service, the tick of the last increment of its
\* wait, the amount credited for it, the number of times a shop has served it
\* and the number of fees charged for it.
NewWorker(home, coffee, path) ==
    [alive |-> "pending", home |-> home, coffee |-> coffee, path |-> path,
     waited_for_coffee |-> FALSE, will_bring_money |-> money_for_path(Len(path)),
     moving |-> -1, waiting |-> -1, returning |-> FALSE, cmds |-> {},
     servedTick |-> 0, incTick |-> 0, credited |-> -1, services |-> 0,
     fees |-> 0]

Alive(w) == workers[w].alive = "yes"

FreeSlots(ws) == {w \in Slots : ws[w].alive = "no"}

\* The set S as a sequence, in the order a query iterates it.
RECURSIVE SeqOf(_)
SeqOf(S) ==
    IF S = {} THEN <<>>
    ELSE LET x == CHOOSE y \in S : TRUE IN <<x>> \o SeqOf(S \ {x})

RECURSIVE Repeat(_, _)
Repeat(x, k) == IF k <= 0 THEN <<>> ELSE <<x>> \o Repeat(x, k - 1)

RECURSIVE SumOver(_, _)
SumOver(f, S) ==
    IF S = {} THEN 0
    ELSE LET x == CHOOSE y \in S : TRUE IN f[x] + SumOver(f, S \ {x})

-----------------------------------------------------------------------------
(* daytime.rs                                                              *)

MINUTES_IN_TICK == 1
TICKS_IN_RUN == 1
MAX_TICKS == MINUTES_IN_TICK * 60 * 24

\* The tick the run starts at, and the number of ticks a run may add to it.
StartTick == 100
MaxTicks == 2

\* (mutant) the time wraps and the day stays.
DaytimeAdd_NoCarry(d, ticks) ==
    LET t == d[2] + ticks IN
    IF t >= MAX_TICKS THEN <<d[1], t - MAX_TICKS>>
    ELSE <<d[1], t>>

\* Daytime::add.
DaytimeAdd(d, ticks) ==
    LET t == d[2] + ticks IN
    IF t >= MAX_TICKS THEN <<d[1] + (t \div MAX_TICKS), t - MAX_TICKS>>
    ELSE <<d[1], t>>

\* The number of TickEvents sent so far.
TickNo == (daytime[1] - 1) * MAX_TICKS + daytime[2]

\* move_worker, start_moving_worker and return_worker read and write nothing
\* that another system of the stage reads or writes within the frame (their
\* Commands take effect at the end of the stage), so their place in the
\* executor's order changes no outcome: they are run first, in this order.
RunFirst == <<"move_worker", "start_moving_worker", "return_worker">>

Earlier(sys) ==
    IF \E i \in 1..Len(RunFirst) : RunFirst[i] = sys
    THEN {RunFirst[j] : j \in {k \in 1..Len(RunFirst) : \E i \in 1..Len(RunFirst) : RunFirst[i] = sys /\ k < i}}
    ELSE {RunFirst[j] : j \in 1..Len(RunFirst)}

\* A system that has not run in this frame yet and that the executor may run.
Runs(sys) ==
    /\ Running
    /\ sys \in systems \ ran
    /\ (Earlier(sys) \cap systems) \subseteq ran

\* update_daytime under its FixedTimestep run criteria: in a frame the step
\* has either come (fire) or not.
update_daytime(fire) ==
    /\ Runs("update_daytime")
    /\ ran' = ran \cup {"update_daytime"}
    /\ IF fire
       THEN /\ TickNo < StartTick + MaxTicks
            /\ daytime' = DaytimeAdd(daytime, TICKS_IN_RUN)
            /\ tickUnread' = [r \in Readers |->
                   IF r \in systems THEN tickUnread[r] + TICKS_IN_RUN ELSE tickUnread[r]]
       ELSE UNCHANGED <<daytime, tickUnread>>
    /\ UNCHANGED <<tiles, generated_rings, timerDuration, timerElapsed, coffeeShops,
                   office, shop, workers, spawnEvents, moneyEvents, money, halted,
                   systems, ringLimit, frames, upgraded,
                   ringEvents>>

-----------------------------------------------------------------------------
(* field.rs: office_system                                                 *)

\* Values of rng.gen_range(0..HUNDRED_PERCENT_CHANCE): the least and the
\* greatest one.
RollSamples == {0, HUNDRED_PERCENT_CHANCE - 1}

\* The coordinates of the entities that carry an OfficeTile, and of those that
\* carry a CoffeeTile.
Offices(off) == {c \in DOMAIN off : off[c] >= 0}
Shops(sh) == {c \in DOMAIN sh : sh[c] >= 0}

\* (mutant) the chance is without its base.
OfficeRoll_NoBase(m, c, off, next) ==
    LET chance == CHANCE_INCREASE_PER_TICK * off IN
    IF next < chance
    THEN LET r == Route(m, BreakShops(m), c) IN
         [off |-> 0,
          events |-> IF r.found = NoSel THEN <<>> ELSE << <<c, r.found, r.path>> >>]
    ELSE [off |-> off + 1, events |-> <<>>]

\* One office in one tick: off is its ticks_wo_worker, next the number drawn.
OfficeRoll(m, c, off, next) ==
    LET chance == BASE_CHANCE_TO_SPAWN_WORKER + CHANCE_INCREASE_PER_TICK * off IN
    IF next < chance
    THEN LET r == Route(m, BreakShops(m), c) IN
         [off |-> 0,
          events |-> IF r.found = NoSel THEN <<>> ELSE << <<c, r.found, r.path>> >>]
    ELSE [off |-> off + 1, events |-> <<>>]

\* OfficeTick, but an office without a route ends the tick for every office.
RECURSIVE OfficeTick_Aborts(_, _, _, _, _)
OfficeTick_Aborts(m, cs, off, events, roll) ==
    IF cs = <<>> THEN [off |-> off, events |-> events]
    ELSE IF \E i \in 1..Len(cs) : Route(m, BreakShops(m), cs[i]).found = NoSel
         THEN [off |-> off, events |-> events]
    ELSE LET c == Head(cs)
             o == OfficeRoll(m, c, off[c], roll[c])
         IN  OfficeTick_Aborts(m, Tail(cs), [off EXCEPT ![c] = o.off],
                               events \o o.events, roll)

\* The offices of one tick, in query order.
RECURSIVE OfficeTick(_, _, _, _, _)
OfficeTick(m, cs, off, events, roll) ==
    IF cs = <<>> THEN [off |-> off, events |-> events]
    ELSE LET c == Head(cs)
             o == OfficeRoll(m, c, off[c], roll[c])
         IN  OfficeTick(m, Tail(cs), [off EXCEPT ![c] = o.off], events \o o.events, roll)

RECURSIVE OfficeTicks(_, _, _, _, _)
OfficeTicks(m, off, events, rolls, i) ==
    IF i > Len(rolls) THEN [off |-> off, events |-> events]
    ELSE LET t == OfficeTick(m, SeqOf(Offices(off)), off, events, rolls[i])
         IN  OfficeTicks(m, t.off, t.events, rolls, i + 1)

office_system(rolls) ==
    /\ Runs("office_system")
    /\ ran' = ran \cup {"office_system"}
    /\ LET t == OfficeTicks(tiles, office, spawnEvents, rolls, 1) IN
       /\ Len(t.events) <= Cardinality(FreeSlots(workers))
       /\ office' = t.off
       /\ spawnEvents' = t.events
    /\ tickUnread' = [tickUnread EXCEPT !["office_system"] = 0]
    /\ UNCHANGED <<tiles, generated_rings, timerDuration, timerElapsed, coffeeShops,
                   shop, workers, moneyEvents, money, halted, daytime,
                   systems, ringLimit, frames, upgraded,
                   ringEvents>>

-----------------------------------------------------------------------------
(* workers.rs: spawn_worker, start_moving_worker, move_worker, wait_worker *)

RECURSIVE SpawnAll(_, _)
SpawnAll(ws, events) ==
    IF events = <<>> \/ FreeSlots(ws) = {} THEN ws
    ELSE LET e == Head(events)
             w == CHOOSE x \in FreeSlots(ws) : \A y \in FreeSlots(ws) : x <= y
         IN  SpawnAll([ws EXCEPT ![w] = NewWorker(e[1], e[2], e[3])], Tail(events))

spawn_worker ==
    /\ Runs("spawn_worker")
    /\ ran' = ran \cup {"spawn_worker"}
    /\ workers' = SpawnAll(workers, spawnEvents)
    /\ spawnEvents' = <<>>
    /\ UNCHANGED <<tiles, generated_rings, timerDuration, timerElapsed, coffeeShops,
                   office, shop, tickUnread, moneyEvents, money, halted, daytime,
                   systems, ringLimit, frames, upgraded,
                   ringEvents>>

\* (mutant) a worker whose path has emptied waits, served or not.
StartMoving_WaitsAgain(r) ==
    IF r.path = <<>>
    THEN [r EXCEPT !.cmds = @ \cup {"insert_waiting"}]
    ELSE [r EXCEPT !.path = SubSeq(@, 1, Len(@) - 1), !.cmds = @ \cup {"insert_moving"}]

\* StartMoving, but a worker back home is left where it is.
StartMoving_StaysHome(r) ==
    IF r.path = <<>>
    THEN IF r.waited_for_coffee
         THEN r
         ELSE [r EXCEPT !.cmds = @ \cup {"insert_waiting"}]
    ELSE [r EXCEPT !.path = SubSeq(@, 1, Len(@) - 1), !.cmds = @ \cup {"insert_moving"}]

\* The body of start_moving_worker's loop; path.pop() takes the last element.
StartMoving(r) ==
    IF r.path = <<>>
    THEN IF r.waited_for_coffee
         THEN [r EXCEPT !.cmds = @ \cup {"despawn"}]
         ELSE [r EXCEPT !.cmds = @ \cup {"insert_waiting"}]
    ELSE [r EXCEPT !.path = SubSeq(@, 1, Len(@) - 1), !.cmds = @ \cup {"insert_moving"}]

start_moving_worker ==
    /\ Runs("start_moving_worker")
    /\ ran' = ran \cup {"start_moving_worker"}
    /\ workers' = [w \in Slots |->
           IF Alive(w) /\ workers[w].moving = -1 /\ workers[w].waiting = -1
           THEN StartMoving(workers[w]) ELSE workers[w]]
    /\ UNCHANGED <<tiles, generated_rings, timerDuration, timerElapsed, coffeeShops,
                   office, shop, spawnEvents, tickUnread, moneyEvents, money, halted,
                   daytime, systems, ringLimit, frames, upgraded,
                   ringEvents>>

Move(r) ==
    LET n == r.moving + 1 IN
    IF n = FRAMES_PER_ONE_TILE
    THEN [r EXCEPT !.moving = n, !.cmds = @ \cup {"remove_moving"}]
    ELSE [r EXCEPT !.moving = n]

move_worker ==
    /\ Runs("move_worker")
    /\ ran' = ran \cup {"move_worker"}
    /\ workers' = [w \in Slots |->
           IF Alive(w) /\ workers[w].moving >= 0 THEN Move(workers[w]) ELSE workers[w]]
    /\ UNCHANGED <<tiles, generated_rings, timerDuration, timerElapsed, coffeeShops,
                   office, shop, spawnEvents, tickUnread, moneyEvents, money, halted,
                   daytime, systems, ringLimit, frames, upgraded,
                   ringEvents>>

is_dead(n) == n >= MAX_WAITING_TICKS

\* One worker over the ticks i..n of one run of wait_worker; base + i is the
\* number of tick i.
RECURSIVE WaitTicks(_, _, _, _)
WaitTicks(r, i, n, base) ==
    IF i > n THEN r
    ELSE LET c == r.waiting + 1
             r1 == [r EXCEPT !.waiting = c, !.incTick = base + i]
             r2 == IF is_dead(c)
                   THEN [r1 EXCEPT !.cmds = @ \cup {"despawn"}, !.fees = @ + 1]
                   ELSE r1
         IN  WaitTicks(r2, i + 1, n, base)

wait_worker ==
    /\ Runs("wait_worker")
    /\ ran' = ran \cup {"wait_worker"}
    /\ LET n == tickUnread["wait_worker"] IN
       workers' = [w \in Slots |->
           IF Alive(w) /\ workers[w].waiting >= 0
           THEN WaitTicks(workers[w], 1, n, TickNo - n) ELSE workers[w]]
    /\ LET charged == [w \in Slots |->
               IF Alive(w) THEN workers'[w].fees - workers[w].fees ELSE 0]
       IN  moneyEvents' = moneyEvents \o Repeat(FEE_FOR_OVERWAIT, SumOver(charged, Slots))
    /\ tickUnread' = [tickUnread EXCEPT !["wait_worker"] = 0]
    /\ UNCHANGED <<tiles, generated_rings, timerDuration, timerElapsed, coffeeShops,
                   office, shop, spawnEvents, money, halted, daytime,
                   systems, ringLimit, frames, upgraded,
                   ringEvents>>

-----------------------------------------------------------------------------
(* field.rs: process_coffees, return_worker                                *)

\* The workers the query w_workers yields for the shop at c.
Eligible(c) ==
    {w \in Slots : Alive(w) /\ workers[w].waiting >= 0 /\ ~workers[w].returning
                   /\ workers[w].coffee = c}

\* One shop over the ticks i..n of one run: count is its waiting_ticks, found
\* says whether w_workers.iter().find(..) yields a worker, served collects the
\* ticks at which it serves.
\* (mutant) the shop serves without starting its countdown.
RECURSIVE ShopTicks_NoCountdown(_, _, _, _, _)
ShopTicks_NoCountdown(count, found, served, i, n) ==
    IF i > n THEN [count |-> count, served |-> served]
    ELSE IF count # 0 THEN ShopTicks_NoCountdown(count - 1, found, served, i + 1, n)
    ELSE IF ~found THEN ShopTicks_NoCountdown(count, found, served, i + 1, n)
    ELSE ShopTicks_NoCountdown(count, found, served \cup {i}, i + 1, n)

\* (mutant) the shop starts its countdown on a tick at which it finds nobody.
RECURSIVE ShopTicks_RestsOnMiss(_, _, _, _, _)
ShopTicks_RestsOnMiss(count, found, served, i, n) ==
    IF i > n THEN [count |-> count, served |-> served]
    ELSE IF count # 0 THEN ShopTicks_RestsOnMiss(count - 1, found, served, i + 1, n)
    ELSE IF ~found
         THEN ShopTicks_RestsOnMiss(WAIT_TICKS_AFTER_SERVING, found, served, i + 1, n)
    ELSE ShopTicks_RestsOnMiss(WAIT_TICKS_AFTER_SERVING, found, served \cup {i}, i + 1, n)

\* (mutant) the countdown after a service is one tick short.
RECURSIVE ShopTicks_ShortRest(_, _, _, _, _)
ShopTicks_ShortRest(count, found, served, i, n) ==
    IF i > n THEN [count |-> count, served |-> served]
    ELSE IF count # 0 THEN ShopTicks_ShortRest(count - 1, found, served, i + 1, n)
    ELSE IF ~found THEN ShopTicks_ShortRest(count, found, served, i + 1, n)
    ELSE ShopTicks_ShortRest(WAIT_TICKS_AFTER_SERVING - 1, found, served \cup {i}, i + 1, n)

RECURSIVE ShopTicks(_, _, _, _, _)
ShopTicks(count, found, served, i, n) ==
    IF i > n THEN [count |-> count, served |-> served]
    ELSE IF count # 0 THEN ShopTicks(count - 1, found, served, i + 1, n)
    ELSE IF ~found THEN ShopTicks(count, found, served, i + 1, n)
    ELSE ShopTicks(WAIT_TICKS_AFTER_SERVING, found, served \cup {i}, i + 1, n)

Least(S) == CHOOSE x \in S : \A y \in S : x <= y

\* first[c] is the worker that find yields for the shop at c, 0 when none.
process_coffees(first) ==
    /\ Runs("process_coffees")
    /\ ran' = ran \cup {"process_coffees"}
    /\ \A c \in Shops(shop) :
          IF Eligible(c) = {} THEN first[c] = 0 ELSE first[c] \in Eligible(c)
    /\ LET n == tickUnread["process_coffees"]
           t == [c \in Shops(shop) |-> ShopTicks(shop[c], first[c] # 0, {}, 1, n)]
           servedBy == [w \in Slots |-> {c \in Shops(shop) : first[c] = w /\ t[c].served # {}}]
           credits == [c \in Shops(shop) |-> Cardinality(t[c].served)]
       IN  /\ shop' = [c \in DOMAIN shop |-> IF c \in Shops(shop) THEN t[c].count ELSE shop[c]]
           /\ workers' = [w \in Slots |->
                  IF servedBy[w] = {} THEN workers[w]
                  ELSE LET c == CHOOSE x \in servedBy[w] : TRUE IN
                       [workers[w] EXCEPT
                           !.cmds = @ \cup {"insert_returning"},
                           !.servedTick = TickNo - n + Least(t[c].served),
                           !.credited = REWARD_FOR_COFFEE,
                           !.services = @ + Cardinality(t[c].served)]]
           /\ moneyEvents' = moneyEvents
                  \o Repeat(REWARD_FOR_COFFEE, SumOver(credits, Shops(shop)))
    /\ tickUnread' = [tickUnread EXCEPT !["process_coffees"] = 0]
    /\ UNCHANGED <<tiles, generated_rings, timerDuration, timerElapsed, coffeeShops,
                   office, spawnEvents, money, halted, daytime,
                   systems, ringLimit, frames, upgraded,
                   ringEvents>>

\* The body of return_worker's loop.
Return(m, r) ==
    LET t == Route(m, {r.home}, r.coffee) IN
    IF t.found = NoSel THEN r
    ELSE [r EXCEPT !.path = t.path, !.waited_for_coffee = TRUE,
                   !.cmds = @ \cup {"remove_returning_waiting"}]

return_worker ==
    /\ Runs("return_worker")
    /\ ran' = ran \cup {"return_worker"}
    /\ workers' = [w \in Slots |->
           IF Alive(w) /\ workers[w].returning THEN Return(tiles, workers[w])
           ELSE workers[w]]
    /\ UNCHANGED <<tiles, generated_rings, timerDuration, timerElapsed, coffeeShops,
                   office, shop, spawnEvents, tickUnread, moneyEvents, money, halted,
                   daytime, systems, ringLimit, frames, upgraded,
                   ringEvents>>

-----------------------------------------------------------------------------
(* SpecWorkers: the tick pipeline over a map of two rings with an office   *)
(* at the origin and one three tiles from the shop, from states in which   *)
(* workers are on the last tile of their way to the shop or have waited at *)
(* it.                                                                     *)

MaxFrames == 3

\* A worker that has waited in the first state is this many ticks short of
\* MAX_WAITING_TICKS.
TicksToLive == 1

FarHome == Scale(Directions[4], 2)

FarMap ==
    InsertAll(HomeMap, CHOOSE roll \in RingRolls(HomeMap, 2, 1) : roll[FarHome] = "Active")

\* The worker spawn_worker builds for the office at home.
WorkerOf(m, home) ==
    LET r == Route(m, BreakShops(m), home) IN
    [NewWorker(home, r.found, r.path) EXCEPT !.alive = "yes"]

\* That worker with one tile to go, and having waited k ticks at its shop.
OnLastTile(m, home) ==
    [WorkerOf(m, home) EXCEPT !.path = <<>>, !.moving = FRAMES_PER_ONE_TILE - 1]

HasWaited(m, home, k) ==
    [WorkerOf(m, home) EXCEPT !.path = <<>>, !.waiting = k]

\* The first states of the workers: none yet, or one from each office, both on
\* their last tile or both having waited.
HomeOf == [w \in Slots |-> IF w = 1 THEN FarHome ELSE Origin]

Crews(m) ==
    {[w \in Slots |-> NoWorker],
     [w \in Slots |-> OnLastTile(m, HomeOf[w])],
     [w \in Slots |-> HasWaited(m, HomeOf[w], MAX_WAITING_TICKS - TicksToLive)]}

WorkerSystems ==
    {"update_daytime", "office_system", "spawn_worker", "start_moving_worker",
     "move_worker", "wait_worker", "process_coffees", "return_worker", "change_money"}

InitWorkers ==
    /\ tiles = FarMap
    /\ generated_rings = 2
    /\ timerDuration = NEXT_RING_TIMER_SECS
    /\ timerElapsed = 0
    /\ coffeeShops = <<1, 1>>
    /\ office = OfficeOf(FarMap, <<>>)
    /\ shop = ShopOf(FarMap, <<>>)
    /\ workers \in Crews(FarMap)
    /\ spawnEvents = <<>>
    /\ tickUnread = [r \in Readers |-> 0]
    /\ moneyEvents = <<>>
    /\ money = 0
    /\ halted = "running"
    /\ daytime = <<1, StartTick>>
    /\ systems = WorkerSystems
    /\ ran = {}
    /\ ringLimit = 2
    /\ frames = MaxFrames
    /\ upgraded = {}
    /\ ringEvents = <<>>

NextWorkers ==
    \/ \E fire \in BOOLEAN : update_daytime(fire)
    \/ \E rolls \in [1..tickUnread["office_system"] -> [Offices(office) -> RollSamples]] :
          office_system(rolls)
    \/ spawn_worker
    \/ start_moving_worker
    \/ move_worker
    \/ wait_worker
    \/ \E first \in [Shops(shop) -> Slots \cup {0}] : process_coffees(first)
    \/ return_worker
    \/ change_money
    \/ apply_buffers

SpecWorkers == InitWorkers /\ [][NextWorkers]_vars

-----------------------------------------------------------------------------
(* SpecJourney: the same systems over the same map, from states in which   *)
(* the workers are on the last tile of their way to the shop, have just    *)
(* been served, or are on the last tile of their way home.                 *)

\* The worker of the office at home once process_coffees has served it at the
\* tick StartTick and its ReturningWorker has been inserted; k is its wait.
Served(m, home, k) ==
    [HasWaited(m, home, k) EXCEPT !.returning = TRUE, !.servedTick = StartTick,
                                  !.incTick = StartTick, !.credited = REWARD_FOR_COFFEE,
                                  !.services = 1]

\* That worker after return_worker, with one tile to go to its home.
HeadingHome(m, home) ==
    [WorkerOf(m, home) EXCEPT !.path = <<>>, !.waited_for_coffee = TRUE,
                              !.moving = FRAMES_PER_ONE_TILE - 1,
                              !.servedTick = StartTick, !.incTick = StartTick,
                              !.credited = REWARD_FOR_COFFEE, !.services = 1]

JourneyCrews(m) ==
    {[w \in Slots |-> OnLastTile(m, HomeOf[w])],
     [w \in Slots |-> Served(m, HomeOf[w], 1)],
     [w \in Slots |-> HeadingHome(m, HomeOf[w])]}

InitJourney ==
    /\ tiles = FarMap
    /\ generated_rings = 2
    /\ timerDuration = NEXT_RING_TIMER_SECS
    /\ timerElapsed = 0
    /\ coffeeShops = <<1, 1>>
    /\ office = OfficeOf(FarMap, <<>>)
    /\ shop = ShopOf(FarMap, <<>>)
    /\ workers \in JourneyCrews(FarMap)
    /\ spawnEvents = <<>>
    /\ tickUnread = [r \in Readers |-> 0]
    /\ moneyEvents = <<>>
    /\ money = 0
    /\ halted = "running"
    /\ daytime = <<1, StartTick>>
    /\ systems = WorkerSystems
    /\ ran = {}
    /\ ringLimit = 2
    /\ frames = MaxFrames
    /\ upgraded = {}
    /\ ringEvents = <<>>

SpecJourney == InitJourney /\ [][NextWorkers]_vars

-----------------------------------------------------------------------------
(* SpecReward: spawn_worker under SpawnWorkerEvents of any path length.    *)

MaxPathLen == 7

\* spawn_events.send(SpawnWorkerEvent(home, coffee, path)) with a path of
\* len coordinates.
send_spawn(len) ==
    /\ Running
    /\ Len(spawnEvents) < Cardinality(FreeSlots(workers))
    /\ spawnEvents' = Append(spawnEvents, <<Origin, Directions[1], Repeat(Directions[1], len)>>)
    /\ UNCHANGED <<tiles, generated_rings, timerDuration, timerElapsed, coffeeShops,
                   office, shop, workers, tickUnread, moneyEvents, money, halted,
                   daytime, systems, ran, ringLimit, frames, upgraded,
                   ringEvents>>

RewardSystems == {"spawn_worker"}

InitReward ==
    /\ InitOver(HomeMap)
    /\ systems = RewardSystems
    /\ ringLimit = 1

NextReward ==
    \/ \E len \in 0..MaxPathLen : send_spawn(len)
    \/ spawn_worker
    \/ apply_buffers

SpecReward == InitReward /\ [][NextReward]_vars

-----------------------------------------------------------------------------
(* SpecSpawn: update_daytime, office_system and spawn_worker over the maps *)
(* that Map::default, one expansion and one upgrade produce, and over a    *)
(* map whose second office is walled in.                                   *)

\* The tiles of the second ring that the expansions of SpecSpawn roll an
\* office or an obstacle at: FarHome and its two neighbours of the ring.
SpawnSector == {FarHome} \cup (Neighbors(FarHome) \cap Ring(2))

\* What one expansion, and then one upgrade request for a tile of the first
\* ring, make of a default map.
GrownMaps ==
    {InsertAll(HomeMap, roll) :
        roll \in {r \in RingRolls(HomeMap, 2, MaxRolled) :
                    \A c \in Ring(2) \ SpawnSector : r[c] = "Inactive"}}

UpgradedMaps == UNION {{UpgradeOne(m, sel) : sel \in Neighbors(Origin)} : m \in GrownMaps}

\* The expansion of a default map that rolls an office at FarHome and
\* obstacles at its two neighbours of the ring, its neighbour of the first
\* ring being an obstacle already.
WalledBase == DefaultTiles(Directions[1], {Directions[3], Directions[4]})

WalledRoll ==
    [c \in Ring(2) |->
        IF c = FarHome THEN "Active"
        ELSE IF c \in Neighbors(FarHome) THEN "Obstacle"
        ELSE "Inactive"]

WalledMap ==
    InsertAll(WalledBase, CHOOSE roll \in RingRolls(WalledBase, 2, 3) : roll = WalledRoll)

SpawnMaps == DefaultMaps \cup GrownMaps \cup UpgradedMaps \cup {WalledMap}

\* The number of rings of a map.
RingsOf(m) ==
    CHOOSE r \in 0..(MaxRings + 1) :
        /\ \A c \in DOMAIN m : Dist(c) <= r
        /\ \E d \in DOMAIN m : Dist(d) = r

\* The frames of a behaviour of SpecSpawn.
SpawnFrames == 1

SpawnSystems == {"update_daytime", "office_system", "spawn_worker"}

InitSpawn ==
    /\ tiles \in SpawnMaps
    /\ generated_rings = RingsOf(tiles)
    /\ timerDuration = IF generated_rings = 1 THEN START_RING_TIMER_SECS
                       ELSE NEXT_RING_TIMER_SECS
    /\ timerElapsed = 0
    /\ coffeeShops = <<1, 1>>
    /\ office = OfficeOf(tiles, <<>>)
    /\ shop = ShopOf(tiles, <<>>)
    /\ workers = [w \in Slots |-> NoWorker]
    /\ spawnEvents = <<>>
    /\ tickUnread = [r \in Readers |-> 0]
    /\ moneyEvents = <<>>
    /\ money = 0
    /\ halted = "running"
    /\ daytime = <<1, StartTick>>
    /\ systems = SpawnSystems
    /\ ran = {}
    /\ ringLimit = generated_rings
    /\ frames = SpawnFrames
    /\ upgraded = BreakShops(tiles) \ {Directions[1]}
    /\ ringEvents = <<>>

NextSpawn ==
    \/ \E fire \in BOOLEAN : update_daytime(fire)
    \/ \E rolls \in [1..tickUnread["office_system"] -> [Offices(office) -> RollSamples]] :
          office_system(rolls)
    \/ spawn_worker
    \/ apply_buffers

SpecSpawn == InitSpawn /\ [][NextSpawn]_vars

-----------------------------------------------------------------------------
(* SpecWorld: the systems of FieldPlugin, DaytimePlugin and WorkerPlugin   *)
(* in one stage, from a map of two rings with workers on it.               *)

\* The frames of a behaviour of SpecWorld.
WorldFrames == 1

\* The cursor is on an Inactive tile, on an obstacle, or on nothing.
WorldSelections == {Directions[2], Directions[3], NoSel}

\* One worker on the last tile of its way to the shop, the other waiting there.
WorldCrew(m) ==
    [w \in Slots |->
        IF w = 1 THEN OnLastTile(m, HomeOf[w])
        ELSE HasWaited(m, HomeOf[w], MAX_WAITING_TICKS - TicksToLive)]

WorldSystems == (WorkerSystems \ {"change_money"}) \cup MapSystems

InitWorld ==
    /\ tiles = FarMap
    /\ generated_rings = 2
    /\ timerDuration = NEXT_RING_TIMER_SECS
    /\ timerElapsed = 0
    /\ coffeeShops = <<1, 1>>
    /\ office = OfficeOf(FarMap, <<>>)
    /\ shop = ShopOf(FarMap, <<>>)
    /\ workers = WorldCrew(FarMap)
    /\ spawnEvents = <<>>
    /\ tickUnread = [r \in Readers |-> 0]
    /\ moneyEvents = <<>>
    /\ money = 0
    /\ halted = "running"
    /\ daytime = <<1, StartTick>>
    /\ systems = WorldSystems
    /\ ran = {}
    /\ ringLimit = MaxRings
    /\ frames = WorldFrames
    /\ upgraded = {}
    /\ ringEvents = <<>>

NextWorld ==
    \/ \E delta \in WholeDeltas : generate_next_ring(delta)
    \/ \E sel \in WorldSelections : upgrade_hex(sel, 1)
    \/ \E fire \in BOOLEAN : update_daytime(fire)
    \/ \E rolls \in [1..tickUnread["office_system"] -> [Offices(office) -> RollSamples]] :
          office_system(rolls)
    \/ spawn_worker
    \/ start_moving_worker
    \/ move_worker
    \/ wait_worker
    \/ \E first \in [Shops(shop) -> Slots \cup {0}] : process_coffees(first)
    \/ return_worker
    \/ apply_buffers

SpecWorld == InitWorld /\ [][NextWorld]_vars

-----------------------------------------------------------------------------
(* SpecLive: the life of the workers on the map, frame after frame without *)
(* end; every system runs in every frame and the FixedTimestep of          *)
(* update_daytime fires again and again.                                   *)

\* One worker on the last tile of its way to the shop, or two workers that
\* have waited at the shop.
LiveCrews(m) ==
    {[w \in Slots |-> IF HomeOf[w] = Origin THEN OnLastTile(m, Origin) ELSE NoWorker],
     [w \in Slots |-> HasWaited(m, HomeOf[w], MAX_WAITING_TICKS - TicksToLive)]}

LiveSystems == WorkerSystems \ {"office_system", "spawn_worker"}

InitLive ==
    /\ tiles = FarMap
    /\ generated_rings = 2
    /\ timerDuration = NEXT_RING_TIMER_SECS
    /\ timerElapsed = 0
    /\ coffeeShops = <<1, 1>>
    /\ office = OfficeOf(FarMap, <<>>)
    /\ shop = ShopOf(FarMap, <<>>)
    /\ workers \in LiveCrews(FarMap)
    /\ spawnEvents = <<>>
    /\ tickUnread = [r \in Readers |-> 0]
    /\ moneyEvents = <<>>
    /\ money = MaxMoney
    /\ halted = "running"
    /\ daytime = <<1, StartTick>>
    /\ systems = LiveSystems
    /\ ran = {}
    /\ ringLimit = 2
    /\ frames = -1
    /\ upgraded = {}
    /\ ringEvents = <<>>

\* update_daytime; the ticks of the behaviour, MaxTicks of them, are those
\* that find a worker waiting.
update_daytime_waited(fire) ==
    /\ fire => \E w \in Slots : Alive(w) /\ workers[w].waiting >= 0
    /\ update_daytime(fire)

NextLive ==
    \/ \E fire \in BOOLEAN : update_daytime_waited(fire)
    \/ start_moving_worker
    \/ move_worker
    \/ wait_worker
    \/ \E first \in [Shops(shop) -> Slots \cup {0}] : process_coffees(first)
    \/ return_worker
    \/ change_money
    \/ apply_buffers

\* WF_vars of the action of the system sys, written out: the action is
\* enabled in the states of Runs(sys), and its steps are those that add sys
\* to ran.
FairSystem(sys) == []<>(~Runs(sys)) \/ []<><<sys \in ran' \ ran>>_vars

\* Every system of the stage runs in every frame, the stage ends, and the
\* timestep fires in a later frame whenever it has not fired.
FairLive ==
    /\ WF_vars(\E fire \in BOOLEAN : update_daytime_waited(fire))
    /\ SF_vars(update_daytime_waited(TRUE))
    /\ WF_vars(start_moving_worker)
    /\ WF_vars(move_worker)
    /\ WF_vars(wait_worker)
    /\ WF_vars(\E first \in [Shops(shop) -> Slots \cup {0}] : process_coffees(first))
    /\ FairSystem("return_worker")
    /\ WF_vars(change_money)
    /\ WF_vars(apply_buffers)

SpecLive == InitLive /\ [][NextLive]_vars /\ FairLive

-----------------------------------------------------------------------------
(* SpecCatchUp: the tick pipeline when a frame lasts several steps of the   *)
(* FixedTimestep.  The run criteria of update_daytime answers once for      *)
(* every step of 1/8 s the frame has lasted, and the stage runs the system  *)
(* again for each answer; the systems without run criteria run once.        *)

\* The greatest number of steps a frame lasts, and the frames of a run.
MaxSteps == 8
CatchUpFrames == 3

\* update_daytime run steps times.
RECURSIVE DaytimeAfter(_, _)
DaytimeAfter(d, steps) ==
    IF steps = 0 THEN d ELSE DaytimeAfter(DaytimeAdd(d, TICKS_IN_RUN), steps - 1)

\* update_daytime in a frame that has lasted the given number of steps.  The
\* second and later runs come after every other system of the frame has run,
\* so their TickEvents are read in the next frame: the runs are taken together
\* in the frames in which the readers have run before the first of them.
update_daytime_steps(steps) ==
    /\ Runs("update_daytime")
    /\ steps > 1 => (Readers \cap systems) \subseteq ran
    /\ ran' = ran \cup {"update_daytime"}
    /\ daytime' = DaytimeAfter(daytime, steps)
    /\ tickUnread' = [r \in Readers |->
           IF r \in systems THEN tickUnread[r] + steps * TICKS_IN_RUN ELSE tickUnread[r]]
    /\ UNCHANGED <<tiles, generated_rings, timerDuration, timerElapsed, coffeeShops,
                   office, shop, workers, spawnEvents, moneyEvents, money, halted,
                   systems, ringLimit, frames, upgraded,
                   ringEvents>>

\* The first states of the workers: one from each office, both on their last
\* tile to the shop or both having waited one tick at it.
CatchUpCrews(m) ==
    {[w \in Slots |-> OnLastTile(m, HomeOf[w])],
     [w \in Slots |-> HasWaited(m, HomeOf[w], 1)]}

CatchUpSystems == WorkerSystems \ {"office_system", "spawn_worker", "change_money"}

InitCatchUp ==
    /\ tiles = FarMap
    /\ generated_rings = 2
    /\ timerDuration = NEXT_RING_TIMER_SECS
    /\ timerElapsed = 0
    /\ coffeeShops = <<1, 1>>
    /\ office = OfficeOf(FarMap, <<>>)
    /\ shop = ShopOf(FarMap, <<>>)
    /\ workers \in CatchUpCrews(FarMap)
    /\ spawnEvents = <<>>
    /\ tickUnread = [r \in Readers |-> 0]
    /\ moneyEvents = <<>>
    /\ money = 0
    /\ halted = "running"
    /\ daytime = <<1, StartTick>>
    /\ systems = CatchUpSystems
    /\ ran = {}
    /\ ringLimit = 2
    /\ frames = CatchUpFrames
    /\ upgraded = {}
    /\ ringEvents = <<>>

NextCatchUp ==
    \/ \E steps \in 0..MaxSteps : update_daytime_steps(steps)
    \/ start_moving_worker
    \/ move_worker
    \/ wait_worker
    \/ \E first \in [Shops(shop) -> Slots \cup {0}] : process_coffees(first)
    \/ return_worker
    \/ apply_buffers

SpecCatchUp == InitCatchUp /\ [][NextCatchUp]_vars

-----------------------------------------------------------------------------
(* SpecRing: ring expansions in which several tiles of a ring are           *)
(* sampled as Active or Obstacle, over a first map whose obstacles are      *)
(* apart and one whose obstacles are side by side.                          *)

\* At most this many coordinates outside ring 1 roll a tile other than Inactive.
RingBudget == 2

RingMaps == {HomeMap, WalledBase}

InitRing ==
    /\ \E m \in RingMaps : InitOver(m)
    /\ systems = TimerSystems
    /\ ringLimit = MaxRingsUpgrading

NextRing ==
    \/ \E delta \in WholeDeltas :
          generate_next_ring_within(delta, RingBudget - RolledSoFar(tiles))
    \/ apply_buffers

SpecRing == InitRing /\ [][NextRing]_vars

-----------------------------------------------------------------------------
(* SpecChance: office_system over offices that have gone almost             *)
(* HUNDRED_PERCENT_CHANCE ticks without a worker.                           *)

\* The offices have failed all but this many of the rolls that take
\* ticks_wo_worker to HUNDRED_PERCENT_CHANCE - 1.
ChanceMargin == 1

LongIdle(m) ==
    [c \in DOMAIN m |->
        IF m[c] = "Active" THEN HUNDRED_PERCENT_CHANCE - 1 - ChanceMargin ELSE -1]

ChanceSystems == {"update_daytime", "office_system", "spawn_worker"}

InitChance ==
    /\ tiles = FarMap
    /\ generated_rings = 2
    /\ timerDuration = NEXT_RING_TIMER_SECS
    /\ timerElapsed = 0
    /\ coffeeShops = <<1, 1>>
    /\ office = LongIdle(FarMap)
    /\ shop = ShopOf(FarMap, <<>>)
    /\ workers = [w \in Slots |-> NoWorker]
    /\ spawnEvents = <<>>
    /\ tickUnread = [r \in Readers |-> 0]
    /\ moneyEvents = <<>>
    /\ money = 0
    /\ halted = "running"
    /\ daytime = <<1, StartTick>>
    /\ systems = ChanceSystems
    /\ ran = {}
    /\ ringLimit = 2
    /\ frames = MaxFrames
    /\ upgraded = {}
    /\ ringEvents = <<>>

NextChance ==
    \/ \E fire \in BOOLEAN : update_daytime(fire)
    \/ \E rolls \in [1..tickUnread["office_system"] -> [Offices(office) -> RollSamples]] :
          office_system(rolls)
    \/ spawn_worker
    \/ apply_buffers

SpecChance == InitChance /\ [][NextChance]_vars

-----------------------------------------------------------------------------
(* SpecClock: update_daytime and the readers of its TickEvents from the     *)
(* first state of the clock and from the end of the first day.              *)

\* The clock starts at the beginning or this many ticks before the end of
\* day 1, and runs for this many frames.
ClockMargin == 2
ClockFrames == 4

ClockSystems == {"update_daytime", "wait_worker", "process_coffees"}

InitClock ==
    /\ tiles = HomeMap
    /\ generated_rings = 1
    /\ timerDuration = START_RING_TIMER_SECS
    /\ timerElapsed = 0
    /\ coffeeShops = <<1, 1>>
    /\ office = OfficeOf(HomeMap, <<>>)
    /\ shop = ShopOf(HomeMap, <<>>)
    /\ workers = [w \in Slots |-> NoWorker]
    /\ spawnEvents = <<>>
    /\ tickUnread = [r \in Readers |-> 0]
    /\ moneyEvents = <<>>
    /\ money = 0
    /\ halted = "running"
    /\ daytime \in {<<1, 0>>, <<1, MAX_TICKS - ClockMargin>>}
    /\ systems = ClockSystems
    /\ ran = {}
    /\ ringLimit = 1
    /\ frames = ClockFrames
    /\ upgraded = {}
    /\ ringEvents = <<>>

\* In a frame the step of the FixedTimestep has come once or not at all.
NextClock ==
    \/ \E steps \in 0..1 : update_daytime_steps(steps)
    \/ wait_worker
    \/ \E first \in [Shops(shop) -> Slots \cup {0}] : process_coffees(first)
    \/ apply_buffers

SpecClock == InitClock /\ [][NextClock]_vars

-----------------------------------------------------------------------------
(* SpecAdd: Daytime::add applied to every time of day, for amounts up to    *)
(* two days.                                                                *)

\* The number of calls in a run.
AddCalls == 1

\* The amounts added: none, one tick, up to a day and up to two days.
AddAmounts == {0, 1, MAX_TICKS - 1, MAX_TICKS, MAX_TICKS + 1, 2 * MAX_TICKS}

daytime_add(ticks) ==
    /\ frames > 0
    /\ frames' = frames - 1
    /\ daytime' = DaytimeAdd(daytime, ticks)
    /\ UNCHANGED <<tiles, generated_rings, timerDuration, timerElapsed, coffeeShops,
                   office, shop, workers, spawnEvents, tickUnread, moneyEvents, money,
                   halted, systems, ran, ringLimit, upgraded, ringEvents>>

InitAdd ==
    /\ tiles = HomeMap
    /\ generated_rings = 1
    /\ timerDuration = START_RING_TIMER_SECS
    /\ timerElapsed = 0
    /\ coffeeShops = <<1, 1>>
    /\ office = OfficeOf(HomeMap, <<>>)
    /\ shop = ShopOf(HomeMap, <<>>)
    /\ workers = [w \in Slots |-> NoWorker]
    /\ spawnEvents = <<>>
    /\ tickUnread = [r \in Readers |-> 0]
    /\ moneyEvents = <<>>
    /\ money = 0
    /\ halted = "running"
    /\ daytime \in {1} \X (0..(MAX_TICKS - 1))
    /\ systems = {}
    /\ ran = {}
    /\ ringLimit = 1
    /\ frames = AddCalls
    /\ upgraded = {}
    /\ ringEvents = <<>>

NextAdd == \E ticks \in AddAmounts : daytime_add(ticks)

SpecAdd == InitAdd /\ [][NextAdd]_vars

-----------------------------------------------------------------------------
(* SpecPaths: workers on their ways while the map grows and tiles are       *)
(* upgraded, over the map of two offices and over the map whose far office  *)
(* is walled in.                                                            *)

\* The frames of a behaviour of SpecPaths.
PathFrames == 2

\* The cursor is on an Inactive tile of the far office's way, on an obstacle,
\* or on nothing.
PathSelections == {Directions[4], Directions[3], NoSel}

\* The first states: nobody on either map, or, on the map of two offices, one
\* worker that has just been served.
PathStarts ==
    {[map |-> FarMap, crew |-> [w \in Slots |-> NoWorker]],
     [map |-> WalledMap, crew |-> [w \in Slots |-> NoWorker]],
     [map |-> FarMap,
      crew |-> [w \in Slots |-> IF w = 1 THEN NoWorker
                                ELSE Served(FarMap, Origin, 1)]]}

\* The systems that write the map or a path, and the clock.
PathSystems == WorldSystems \ {"wait_worker", "process_coffees"}

InitPaths ==
    /\ \E s \in PathStarts :
          /\ tiles = s.map
          /\ workers = s.crew
    /\ generated_rings = 2
    /\ timerDuration = NEXT_RING_TIMER_SECS
    /\ timerElapsed = 0
    /\ coffeeShops = <<1, 1>>
    /\ office = OfficeOf(tiles, <<>>)
    /\ shop = ShopOf(tiles, <<>>)
    /\ spawnEvents = <<>>
    /\ tickUnread = [r \in Readers |-> 0]
    /\ moneyEvents = <<>>
    /\ money = 0
    /\ halted = "running"
    /\ daytime = <<1, StartTick>>
    /\ systems = PathSystems
    /\ ran = {}
    /\ ringLimit = MaxRings
    /\ frames = PathFrames
    /\ upgraded = {}
    /\ ringEvents = <<>>

NextPaths ==
    \/ \E delta \in WholeDeltas : generate_next_ring(delta)
    \/ \E sel \in PathSelections : upgrade_hex(sel, 1)
    \/ \E fire \in BOOLEAN : update_daytime(fire)
    \/ \E rolls \in [1..tickUnread["office_system"] -> [Offices(office) -> RollSamples]] :
          office_system(rolls)
    \/ spawn_worker
    \/ start_moving_worker
    \/ move_worker
    \/ return_worker
    \/ apply_buffers

SpecPaths == InitPaths /\ [][NextPaths]_vars

-----------------------------------------------------------------------------
(* Claims.                                                                 *)

\* The coordinates at hex distance at most r of the origin.
Disk(r) == {c \in ((-r)..r) \X ((-r)..r) : Dist(c) <= r}

\* C2: a debit d of a balance b succeeds exactly when d <= b and then leaves
\* b - d; a debit d > b exits the process and leaves the balance as it was; the
\* balance is never negative.
C2_DebitContract ==
    /\ [](money >= 0)
    /\ [][(/\ change_money
           /\ Len(moneyEvents) = 1
           /\ Head(moneyEvents) < 0)
          => IF -Head(moneyEvents) <= money
             THEN money' = money + Head(moneyEvents) /\ halted' = "running"
             ELSE money' = money /\ halted' = "exit"]_vars

C2_Witness == halted = "exit" /\ money > 0

C5_NoGap == DOMAIN tiles = Disk(generated_rings)

C5_Witness == generated_rings = 2 /\ upgraded # {} /\ Cardinality(DOMAIN tiles) = 19

\* C6: an initial map has the origin Active, exactly one neighbour of the
\* origin BreakShop, the other five Inactive or Obstacle, and one ring; the
\* origin stays Active in every state.
IsInitial == timerDuration = START_RING_TIMER_SECS /\ upgraded = {} /\ ran = {}

C6_Origin ==
    /\ Get(tiles, Origin) = "Active"
    /\ IsInitial =>
         /\ generated_rings = 1
         /\ DOMAIN tiles = {Origin} \cup Neighbors(Origin)
         /\ Cardinality({c \in Neighbors(Origin) : tiles[c] = "BreakShop"}) = 1
         /\ \A c \in Neighbors(Origin) : tiles[c] \in {"BreakShop", "Inactive", "Obstacle"}

C6_Witness == generated_rings = 2 /\ upgraded # {} /\ Get(tiles, Origin) = "Active"

\* C7: an upgrade request changes the map only when the selected coordinate
\* holds an Inactive tile, and then only that tile, to BreakShop.
C7_UpgradeContract ==
    [][\A sel \in Selections : \A n \in 1..MaxUpgradeEvents :
          upgrade_hex(sel, n) =>
             /\ generated_rings' = generated_rings
             /\ IF sel # NoSel /\ Get(tiles, sel) = "Inactive"
                THEN tiles' = [tiles EXCEPT ![sel] = "BreakShop"]
                ELSE tiles' = tiles]_vars

C7_Witness == "upgrade_hex" \in ran /\ upgraded # {}

\* C8 (as claimed): the map never holds more BreakShops than the capacity of
\* CoffeeShops, and every upgrade that converts a tile consumes a unit of it.
C8_WithinCapacity ==
    /\ [](Cardinality(BreakShops(tiles)) <= coffeeShops[2])
    /\ [][(tiles' # tiles /\ generated_rings' = generated_rings)
             => coffeeShops' # coffeeShops]_vars

\* C1 (as claimed): the wait of a worker served at tick T is not incremented
\* for tick T.
C1_ServedNotIncremented ==
    \A w \in Slots :
        (workers[w].alive = "yes" /\ workers[w].servedTick > 0)
            => workers[w].incTick # workers[w].servedTick

\* C3 (as claimed): the amount credited for a served worker is the worker's
\* own will_bring_money.
C3_CreditIsOwnReward ==
    \A w \in Slots :
        (workers[w].alive = "yes" /\ workers[w].credited >= 0)
            => workers[w].credited = workers[w].will_bring_money

\* C9: when a run of process_coffees reads a tick at which a shop's countdown
\* is 0 and two or more workers wait at it, the run serves exactly one of them
\* and sends one credit for the shop, the countdown is set to
\* WAIT_TICKS_AFTER_SERVING (and goes down by one for every further tick the
\* run reads), and the other workers are left as they were.
C9_OneServedPerTick ==
    [][("process_coffees" \in ran' /\ "process_coffees" \notin ran
            /\ tickUnread["process_coffees"] >= 1)
       => LET busy == {c \in Shops(shop) : shop[c] = 0 /\ Eligible(c) # {}} IN
          /\ Len(moneyEvents') = Len(moneyEvents) + Cardinality(busy)
          /\ \A c \in Shops(shop) :
                (shop[c] = 0 /\ Cardinality(Eligible(c)) >= 2) =>
                   LET served == {w \in Eligible(c) :
                                     "insert_returning" \in workers'[w].cmds} IN
                   /\ Cardinality(served) = 1
                   /\ shop'[c] = WAIT_TICKS_AFTER_SERVING
                                    - (tickUnread["process_coffees"] - 1)
                   /\ \A w \in Eligible(c) \ served : workers'[w] = workers[w]]_vars

C9_Witness ==
    /\ "process_coffees" \in ran
    /\ \E w, v \in Slots :
          /\ w # v
          /\ workers[w].alive = "yes" /\ workers[v].alive = "yes"
          /\ workers[w].coffee = workers[v].coffee
          /\ workers[w].waiting >= 0 /\ workers[v].waiting >= 0
          /\ "insert_returning" \in workers[w].cmds
          /\ "insert_returning" \notin workers[v].cmds /\ ~workers[v].returning
          /\ shop[workers[w].coffee] = WAIT_TICKS_AFTER_SERVING

\* C10 (as claimed): a worker that carries WaitingWorker has been charged no
\* fee while its wait is below MAX_WAITING_TICKS, and once it is not, it is
\* being despawned and has been charged the fee exactly once.
C10_OneFeeAtExpiry ==
    \A w \in Slots :
        (workers[w].alive = "yes" /\ workers[w].waiting >= 0) =>
            IF workers[w].waiting >= MAX_WAITING_TICKS
            THEN workers[w].fees = 1 /\ "despawn" \in workers[w].cmds
            ELSE workers[w].fees = 0


\* C11: start_moving_worker makes a worker whose path is empty wait from 0 when
\* it has not been served and despawns it when it has, and takes exactly one
\* coordinate, the last, off a path that is not empty; the Commands take
\* effect at the end of the frame; a served worker that has left Waiting never
\* waits again.
C11_PathEnd ==
    /\ [][("start_moving_worker" \in ran' /\ "start_moving_worker" \notin ran) =>
            \A w \in Slots :
               IF workers[w].alive = "yes" /\ workers[w].moving = -1
                     /\ workers[w].waiting = -1
               THEN IF workers[w].path = <<>>
                    THEN workers'[w] = [workers[w] EXCEPT !.cmds = @ \cup
                             {IF workers[w].waited_for_coffee THEN "despawn"
                              ELSE "insert_waiting"}]
                    ELSE /\ Len(workers'[w].path) = Len(workers[w].path) - 1
                         /\ workers'[w].path \o <<workers[w].path[Len(workers[w].path)]>>
                               = workers[w].path
                         /\ workers'[w].cmds = workers[w].cmds \cup {"insert_moving"}
               ELSE workers'[w] = workers[w]]_vars
    /\ [][(ran = systems /\ ran' = {}) =>
            \A w \in Slots :
               (workers[w].alive = "yes" /\ workers[w].waiting = -1) =>
                  IF "despawn" \in workers[w].cmds THEN workers'[w].alive = "no"
                  ELSE workers'[w].waiting =
                          IF "insert_waiting" \in workers[w].cmds THEN 0 ELSE -1]_vars
    /\ [][\A w \in Slots :
            (workers[w].alive = "yes" /\ workers[w].credited >= 0
                /\ workers[w].waiting = -1 /\ workers'[w].alive = "yes")
               => (workers'[w].waiting = -1
                   /\ "insert_waiting" \notin workers'[w].cmds)]_vars

C11_Witness ==
    \E w \in Slots :
        /\ workers[w].alive = "yes"
        /\ workers[w].waited_for_coffee /\ workers[w].credited >= 0
        /\ workers[w].path = <<>> /\ workers[w].waiting = -1
        /\ "despawn" \in workers[w].cmds

\* C12: the reward of a spawned worker is at least 0, is 0 for a path of 5 or
\* more coordinates and the least integer k with 2k >= 5 - n under that, and a
\* worker with a path at least as long as another's has a reward at most the
\* other's.
C12_Reward ==
    \A w, v \in Slots :
        (workers[w].alive # "no" /\ workers[v].alive # "no") =>
            LET n == Len(workers[w].path)
                k == workers[w].will_bring_money
            IN  /\ k >= 0
                /\ IF n >= 5 THEN k = 0 ELSE 2 * k >= 5 - n /\ 2 * (k - 1) < 5 - n
                /\ n <= Len(workers[v].path) => k >= workers[v].will_bring_money

C12_Witness ==
    \E w, v \in Slots :
        /\ workers[w].alive = "yes" /\ workers[v].alive = "yes"
        /\ Len(workers[w].path) = 0 /\ workers[w].will_bring_money = 3
        /\ Len(workers[v].path) = MaxPathLen /\ workers[v].will_bring_money = 0

\* C13, C14, C18, C20: the step from a state is a run of office_system that
\* read n ticks.
OfficeStep(n) ==
    /\ "office_system" \notin ran
    /\ "office_system" \in ran'
    /\ tickUnread["office_system"] = n

\* The events that a run of office_system sent.
Sent == {spawnEvents'[i] : i \in (Len(spawnEvents) + 1)..Len(spawnEvents')}

\* The number of steps of the shortest walk from start over passable tiles
\* into dests, -1 when there is none: the tiles within k steps are grown
\* until one of them is in dests.
RECURSIVE Within(_, _, _, _)
Within(m, dests, reached, k) ==
    IF reached \cap dests # {} THEN k
    ELSE LET next == reached \cup UNION {Neighbors(c) : c \in {x \in reached : CanPass(m, x)}} IN
         IF next = reached THEN -1 ELSE Within(m, dests, next, k + 1)

PassableDistance(m, start, dests) == Within(m, dests, {start}, 0)

\* path, walked from its back, is a walk from home into coffee.
IsWalk(m, home, coffee, path) ==
    /\ Len(path) >= 1
    /\ path[1] = coffee
    /\ Dist(Add(path[Len(path)], Scale(home, -1))) = 1
    /\ \A i \in 1..(Len(path) - 1) : Dist(Add(path[i], Scale(path[i + 1], -1))) = 1
    /\ \A i \in 1..Len(path) : path[i] # home /\ CanPass(m, path[i])

\* C13: when office_system has read one tick, every office that some
\* BreakShop can be reached from and whose roll succeeded has sent one event,
\* and the path of every sent event, taken from its back, is a walk over
\* adjacent passable tiles that starts next to the office, ends at the chosen
\* BreakShop, leaves the office out and has as many coordinates as the
\* shortest passable distance from the office to any BreakShop.
C13_SpawnPath ==
    [][/\ \A n \in 1..MaxTicks : OfficeStep(n) =>
            \A e \in Sent :
                /\ tiles[e[2]] = "BreakShop"
                /\ IsWalk(tiles, e[1], e[2], e[3])
                /\ Len(e[3]) = PassableDistance(tiles, e[1], BreakShops(tiles))
       /\ OfficeStep(1) =>
            \A c \in Offices(office) :
                (office'[c] = 0 /\ PassableDistance(tiles, c, BreakShops(tiles)) > 0)
                    => Cardinality({i \in (Len(spawnEvents) + 1)..Len(spawnEvents') :
                                       spawnEvents'[i][1] = c}) = 1
      ]_vars

\* An office of the second ring has sent a path of two coordinates or more to
\* an upgraded shop.
C13_Witness ==
    /\ \E i \in 1..Len(spawnEvents) :
          /\ Dist(spawnEvents[i][1]) = 2
          /\ Len(spawnEvents[i][3]) >= 2
          /\ spawnEvents[i][2] \in upgraded

\* C14: on the default maps and on what expansions and upgrades make of
\* them, every event that office_system sends for the origin carries a path
\* of one coordinate, a BreakShop next to the origin, and a run over one tick
\* in which the roll of the origin succeeds sends such an event; the search
\* from the origin never ends without a route.
C14_OriginSpawn ==
    /\ [](Route(tiles, BreakShops(tiles), Origin).found # NoSel)
    /\ [][/\ \A n \in 1..MaxTicks : OfficeStep(n) =>
               \A e \in Sent : e[1] = Origin =>
                   /\ e[3] = <<e[2]>>
                   /\ e[2] \in Neighbors(Origin)
                   /\ tiles[e[2]] = "BreakShop"
          /\ (OfficeStep(1) /\ office'[Origin] = 0) => \E e \in Sent : e[1] = Origin
         ]_vars

\* The origin of a map of two rings with an upgraded shop has sent an event.
C14_Witness ==
    /\ generated_rings = 2
    /\ upgraded # {}
    /\ \E i \in 1..Len(spawnEvents) : spawnEvents[i][1] = Origin

\* C15: once the simulation has stopped no step changes the state, and the
\* only step that stops it is a run of change_money over a debit that exceeds
\* the balance.
C15_OnlyInsolvencyFatal ==
    /\ [][halted # "running" => UNCHANGED vars]_vars
    /\ [][halted' # halted =>
            /\ "change_money" \in ran' \ ran
            /\ ChangeMoney(money, moneyEvents).halted = "exit"
            /\ halted' = "exit"]_vars

\* C16: a step that changes generated_rings raises it by one to r, leaves
\* every tile of the map as it was, adds 6 * r coordinates, all of them at
\* distance r from the origin, and sends one GeneratedNextRing event that
\* carries r; no other step adds a coordinate or sends such an event.
C16_Expansion ==
    [][/\ generated_rings' # generated_rings =>
            LET r == generated_rings'
                added == DOMAIN tiles' \ DOMAIN tiles
            IN  /\ r = generated_rings + 1
                /\ \A c \in DOMAIN tiles : c \in DOMAIN tiles' /\ tiles'[c] = tiles[c]
                /\ Cardinality(added) = 6 * r
                /\ \A c \in added : Dist(c) = r
                /\ ringEvents' = Append(ringEvents, r)
                /\ Len(ringEvents') = 1
       /\ generated_rings' = generated_rings =>
            /\ DOMAIN tiles' = DOMAIN tiles
            /\ ringEvents' \in {ringEvents, <<>>}
      ]_vars

\* The third ring has been generated and its event sent.
C16_Witness ==
    /\ generated_rings = 3
    /\ ringEvents = <<3>>
    /\ Cardinality(DOMAIN tiles) = 37

\* The systems that process ticks and move workers.
TickSystems ==
    {"update_daytime", "office_system", "spawn_worker", "process_coffees",
     "wait_worker", "start_moving_worker", "move_worker", "return_worker"}

\* C17: no step removes a coordinate from the map; a step changes the tile
\* of a coordinate of the map only from Inactive to BreakShop and only when
\* it is a run of upgrade_hex; generated_rings changes only in a run of
\* generate_next_ring; and a run of a system that processes ticks or moves
\* workers leaves the map and generated_rings as they were.
C17_MapWrites ==
    [][/\ DOMAIN tiles \subseteq DOMAIN tiles'
       /\ \A c \in DOMAIN tiles : tiles'[c] # tiles[c] =>
              /\ tiles[c] = "Inactive"
              /\ tiles'[c] = "BreakShop"
              /\ ran' \ ran = {"upgrade_hex"}
       /\ DOMAIN tiles' # DOMAIN tiles => ran' \ ran = {"generate_next_ring"}
       /\ generated_rings' # generated_rings => ran' \ ran = {"generate_next_ring"}
       /\ (ran' \ ran) \cap TickSystems # {} =>
              tiles' = tiles /\ generated_rings' = generated_rings
      ]_vars

\* In a frame with an expansion and an upgrade a worker has been served and
\* a worker has expired.
C17_Witness ==
    /\ generated_rings = 3
    /\ upgraded # {}
    /\ \E w \in Slots : Alive(w) /\ workers[w].servedTick > 0
    /\ \E w \in Slots : Alive(w) /\ workers[w].fees > 0

\* No BreakShop can be reached from c over passable tiles.
Unreachable(c) == PassableDistance(tiles, c, BreakShops(tiles)) = -1

\* C18: when office_system has read one tick and the roll of an office that
\* no BreakShop can be reached from has succeeded (its counter is 0 after the
\* run, a failed roll leaves it at one or more), the run sends no event for
\* that office, leaves the map, the workers, the balance and the pending
\* ChangeMoneyEvents as they were, and has processed every other office: its
\* counter went up by one, or is 0 with an event sent when a BreakShop can be
\* reached from it. No worker ever has such an office as its home.
C18_NoRouteIsLocal ==
    /\ [](\A w \in Slots : workers[w].alive # "no" => ~Unreachable(workers[w].home))
    /\ [][OfficeStep(1) =>
            \A c \in Offices(office) : (office'[c] = 0 /\ Unreachable(c)) =>
                /\ \A e \in Sent : e[1] # c
                /\ tiles' = tiles /\ workers' = workers
                /\ money' = money /\ moneyEvents' = moneyEvents
                /\ \A d \in Offices(office) \ {c} :
                      \/ office'[d] = office[d] + 1 /\ \A e \in Sent : e[1] # d
                      \/ /\ office'[d] = 0
                         /\ ~Unreachable(d) => \E e \in Sent : e[1] = d
         ]_vars

\* After the first tick the rolls of the walled-in office and of the origin
\* have both succeeded, and only the origin has sent an event.
C18_Witness ==
    /\ tiles = WalledMap
    /\ TickNo = StartTick + 1
    /\ "office_system" \in ran
    /\ tickUnread["office_system"] = 0
    /\ office[FarHome] = 0
    /\ office[Origin] = 0
    /\ Len(spawnEvents) = 1
    /\ spawnEvents[1][1] = Origin

\* C20: when office_system has read one tick, the counter of an office that
\* the run sent an event for is 0 after the run, and the counter of every
\* other office, the offices whose spawn was abandoned for want of a route
\* among them, has gone up by one.
C20_ResetOnlyOnSpawn ==
    [][OfficeStep(1) =>
          \A c \in Offices(office) :
              office'[c] = IF \E e \in Sent : e[1] = c THEN 0 ELSE office[c] + 1
      ]_vars

\* C19: while the frames go on, the ticks come and the simulation has not
\* stopped, every worker on the map is eventually despawned.
C19_EventuallyDespawned ==
    \A w \in Slots :
        (workers[w].alive = "yes") ~> (workers[w].alive = "no" \/ ~Running)

\* A served worker is back home and its despawn is queued, the simulation
\* running.
C19_Witness ==
    /\ Running
    /\ \E w \in Slots :
          /\ Alive(w)
          /\ workers[w].waited_for_coffee
          /\ workers[w].path = <<>>
          /\ "despawn" \in workers[w].cmds

\* C21 (as claimed): no worker has caused both a service credit and an
\* over-wait fee.
C21_ServedOrExpired ==
    \A w \in Slots :
        workers[w].alive = "yes" => ~(workers[w].credited >= 0 /\ workers[w].fees > 0)

\* C22 (as claimed): no worker is served more than once, so each worker
\* causes at most one service credit.
C22_ServedOnce ==
    \A w \in Slots : workers[w].alive # "no" => workers[w].services <= 1

\* The workers a shop serves in the step.
ServedNow == {w \in Slots : workers[w].alive = "yes" /\ workers'[w].services > workers[w].services}

ObstaclesAround(m, c) == {n \in Neighbors(c) \cap DOMAIN m : m[n] = "Obstacle"}

C25_BucketInRange ==
    \A c \in Ring(NextRadius(generated_rings)) :
        ObstacleCount(tiles, c) \in DOMAIN NEIGHBOURS_WEIGHTS

\* An expansion has sampled an Obstacle for a coordinate that had two Obstacle
\* neighbours, and the next ring has such a coordinate again.
C25_Witness ==
    /\ generated_rings = 2
    /\ \E c \in Ring(2) :
          /\ tiles[c] = "Obstacle"
          /\ Cardinality(ObstaclesAround(tiles, c) \cap Ring(1)) = 2
    /\ \E c \in Ring(3) : ObstacleCount(tiles, c) = 2

\* The workers spawned, or about to be, for the office at c.
SpawnedFor(c) ==
    Cardinality({w \in Slots : workers[w].alive # "no" /\ workers[w].home = c})
        + Cardinality({i \in 1..Len(spawnEvents) : spawnEvents[i][1] = c})

\* C26: no office's ticks_wo_worker exceeds HUNDRED_PERCENT_CHANCE - 1; a run
\* of office_system that takes an office past that many ticks without a worker
\* has a roll of the office succeed, and an office at that count succeeds at
\* the next tick whatever number is drawn, sending its SpawnWorkerEvent when a
\* shop can be reached.
C26_CertainAtFull ==
    /\ [](\A c \in Offices(office) : office[c] <= HUNDRED_PERCENT_CHANCE - 1)
    /\ [][("office_system" \in ran' \ ran) =>
             LET n == tickUnread["office_system"] IN
             \A c \in Offices(office) :
                 /\ office[c] + n > HUNDRED_PERCENT_CHANCE - 1 => office'[c] < n
                 /\ office'[c] \in {office[c] + n} \cup 0..(n - 1)
                 /\ (/\ office[c] = HUNDRED_PERCENT_CHANCE - 1
                     /\ n > 0
                     /\ Route(tiles, BreakShops(tiles), c).found # NoSel) =>
                        \E i \in (Len(spawnEvents) + 1)..Len(spawnEvents') :
                            spawnEvents'[i][1] = c
        ]_vars

\* An office has failed its rolls up to HUNDRED_PERCENT_CHANCE - 1 ticks
\* without a worker and has spawned its only worker at the tick after.
C26_Witness ==
    \E c \in Offices(office) :
        /\ TickNo = StartTick + ChanceMargin + 1
        /\ tickUnread["office_system"] = 0
        /\ office[c] = 0
        /\ SpawnedFor(c) = 1

\* C27: the time of day stays below MAX_TICKS and the day is at least 1, so
\* that with n = TickNo the day is 1 + n div MAX_TICKS and the time is
\* n mod MAX_TICKS; a run of update_daytime takes n to n + 1 and sends one
\* TickEvent to every reader, or, its step not having come, changes nothing;
\* no other step changes the clock, and the day never decreases.
C27_ClockIsTickCount ==
    [][/\ daytime'[2] < MAX_TICKS
       /\ daytime'[1] = 1 + (TickNo' \div MAX_TICKS)
       /\ daytime'[2] = TickNo' % MAX_TICKS
       /\ daytime'[1] >= daytime[1]
       /\ IF "update_daytime" \in ran' \ ran
          THEN \/ /\ TickNo' = TickNo + 1
                  /\ \A r \in Readers \cap systems : tickUnread'[r] = tickUnread[r] + 1
               \/ /\ daytime' = daytime
                  /\ tickUnread' = tickUnread
          ELSE /\ daytime' = daytime
               /\ \A r \in Readers : tickUnread'[r] <= tickUnread[r]
      ]_vars

\* The clock has passed the end of day 1.
C27_Witness ==
    /\ daytime = <<2, 1>>
    /\ \E r \in Readers : tickUnread[r] > 0

\* C28 (as claimed): Daytime::add(k) on a time of day t < MAX_TICKS leaves the
\* time (t + k) mod MAX_TICKS and adds (t + k) div MAX_TICKS to the day, for
\* the amount k added.
C28_AddIsModular ==
    [][(frames' # frames /\ daytime[2] < MAX_TICKS) =>
          \E k \in AddAmounts :
              /\ daytime'[2] = (daytime[2] + k) % MAX_TICKS
              /\ daytime'[1] = daytime[1] + ((daytime[2] + k) \div MAX_TICKS)
      ]_vars

\* The services of workers by the shop at c in the step.
ServedAt(c) == {w \in ServedNow : workers[w].coffee = c}

\* C29: a shop's countdown is within 0..WAIT_TICKS_AFTER_SERVING; two workers
\* served by one shop are served at least WAIT_TICKS_AFTER_SERVING + 1 ticks
\* apart; over the n ticks of a run of process_coffees a countdown k >= n
\* becomes k - n and the shop serves nobody, and a countdown k < n lets the
\* shop serve at the tick k + 1 at the earliest, after which the countdown is
\* WAIT_TICKS_AFTER_SERVING less one for every tick since the service.
C29_RestAfterService ==
    /\ [](\A c \in Shops(shop) : shop[c] \in 0..WAIT_TICKS_AFTER_SERVING)
    /\ [](\A v, w \in Slots :
            (/\ v # w
             /\ workers[v].alive = "yes" /\ workers[w].alive = "yes"
             /\ workers[v].services > 0 /\ workers[w].services > 0
             /\ workers[v].coffee = workers[w].coffee)
            => Abs(workers[v].servedTick - workers[w].servedTick)
                   >= WAIT_TICKS_AFTER_SERVING + 1)
    /\ [][("process_coffees" \in ran' \ ran) =>
             LET n == tickUnread["process_coffees"] IN
             \A c \in Shops(shop) :
                 /\ shop[c] >= n => (shop'[c] = shop[c] - n /\ ServedAt(c) = {})
                 /\ (shop[c] < n /\ ServedAt(c) = {}) => shop'[c] = 0
                 /\ \A w \in ServedAt(c) :
                       /\ workers'[w].servedTick >= TickNo - n + shop[c] + 1
                       /\ workers'[w].services - workers[w].services
                              <= 1 + ((n - shop[c] - 1) \div (WAIT_TICKS_AFTER_SERVING + 1))
                       /\ shop'[c] >= WAIT_TICKS_AFTER_SERVING - (n - shop[c] - 1)
                       /\ shop'[c] > 0 \/ n - shop[c] - 1 >= WAIT_TICKS_AFTER_SERVING
        ]_vars

\* A shop has served a second worker at the first tick at which it could.
C29_Witness ==
    \E v, w \in Slots :
        /\ workers[v].alive = "yes" /\ workers[w].alive = "yes"
        /\ workers[v].services > 0 /\ workers[w].services > 0
        /\ workers[v].coffee = workers[w].coffee
        /\ workers[w].servedTick = workers[v].servedTick + WAIT_TICKS_AFTER_SERVING + 1

\* C30 (as claimed): return_worker finds a route for every served worker,
\* sets waited_for_coffee and takes the worker out of Waiting, with its home as
\* the last coordinate of the way; a served worker is despawned only when it
\* has travelled that way to its end.
C30_ServedGoesHome ==
    [][/\ ("return_worker" \in ran' \ ran) =>
            \A w \in Slots :
                (workers[w].alive = "yes" /\ workers[w].returning) =>
                    /\ workers'[w].waited_for_coffee
                    /\ "remove_returning_waiting" \in workers'[w].cmds
                    /\ workers'[w].path # <<>>
                    /\ workers'[w].path[1] = workers[w].home
       /\ \A w \in Slots :
            (/\ workers[w].alive = "yes"
             /\ workers[w].services > 0
             /\ workers'[w].alive = "no") =>
                /\ workers[w].waited_for_coffee
                /\ workers[w].path = <<>>
                /\ workers[w].waiting < 0
                /\ workers[w].moving < 0
      ]_vars

\* The coordinates of a way.
OnWay(path) == {path[i] : i \in 1..Len(path)}

\* C31: every coordinate of the path of every worker, and of every
\* SpawnWorkerEvent not read yet, is a key of the map whose tile is not an
\* Obstacle.
C31_PathsPassable ==
    /\ \A w \in Slots :
          workers[w].alive # "no" =>
              \A c \in OnWay(workers[w].path) : c \in DOMAIN tiles /\ tiles[c] # "Obstacle"
    /\ \A i \in 1..Len(spawnEvents) :
          \A c \in OnWay(spawnEvents[i][3]) : c \in DOMAIN tiles /\ tiles[c] # "Obstacle"

\* The third ring is there, a worker has a tile on its way out that has been
\* upgraded since its way was found, and a served worker has its way home.
C31_Witness ==
    /\ generated_rings = 3
    /\ \E w \in Slots :
          /\ workers[w].alive = "yes"
          /\ ~workers[w].waited_for_coffee
          /\ OnWay(workers[w].path) \cap upgraded # {}
    /\ \E w \in Slots :
          /\ workers[w].alive = "yes"
          /\ workers[w].waited_for_coffee
          /\ workers[w].path # <<>>
=============================================================================
